---- MODULE Spec2Model ----
(***************************************************************************)
(* A state-machine model of pdf2ppt.py: the annotation extractor           *)
(* (extract_pdf_comments_with_pages), the slide builder                    *)
(* (convert_pdf_to_ppt_with_comments) and the command that runs one after  *)
(* the other (convert).                                                    *)
(*                                                                         *)
(* Python strings are sequences of one-character strings, Python dicts are *)
(* functions whose domain is the set of keys, lengths are EMU integers as  *)
(* python-pptx keeps them.                                                 *)
(***************************************************************************)
EXTENDS Integers, Sequences, FiniteSets, TLC

\* ---------------------------------------------------------------- bounds
MaxPages == 2

\* Annotations in a whole document (extract) .
MaxAnnots == 2

\* Comments in a whole comments_data argument (build).
MaxComments == 2

\* ------------------------------------------------------ program constants
\* 1 inch = 72 points (pdf_width_pt / 72.0).
PointsPerInch == 72

\* pptx.util.Inches: 914400 EMU per inch.
EmuPerInch == 914400

\* Presentation(): the default template is 10 x 7.5 inches.
DefaultSlideWidth == 9144000

DefaultSlideHeight == 6858000

\* ---------------------------------------------------------------- helpers
\* A dict with key k set to v (d[k] = v).
DictSet(d, k, v) == [x \in (DOMAIN d) \cup {k} |-> IF x = k THEN v ELSE d[x]]

EmptyDict == [x \in {} |-> <<>>]

NL == "\n"

\* ------------------------------------------------------------ input space
\* Annotation objects as PyMuPDF hands them over: annot.type = (code, name)
\* and annot.info, whose "content" key may be missing.
Annot(code, name, has, content) ==
    [code |-> code, name |-> name, hasContent |-> has, content |-> content]

AnnotUniverse ==
    { Annot(0, "Text", TRUE, <<"a">>),
      Annot(8, "Highlight", TRUE, <<"b", NL, "c">>),
      Annot(1, "Text", TRUE, <<"d">>),
      Annot(2, "FreeText", TRUE, <<"e">>),
      Annot(0, "Text", TRUE, <<>>),
      Annot(0, "Text", FALSE, <<>>) }

\* Page geometries in points.
Geoms == { [w |-> 612, h |-> 792], [w |-> 842, h |-> 595] }

PlainGeom == [w |-> 612, h |-> 792]

SeqsOfLen(S, n) == [1..n -> S]

\* Sequences of n pages of geometry g holding at most k annotations in total.
RECURSIVE AnnotatedPages(_, _)
AnnotatedPages(n, k) ==
    IF n = 0 THEN { <<>> }
    ELSE UNION { { Append(d, [w |-> PlainGeom.w, h |-> PlainGeom.h, annots |-> a]) :
                     d \in AnnotatedPages(n - 1, k - j), a \in SeqsOfLen(AnnotUniverse, j) }
                 : j \in 0..k }

\* Documents the extractor is run on.
ExtractDocs ==
    UNION { AnnotatedPages(n, MaxAnnots) : n \in 0..MaxPages }

\* Documents the builder is run on: geometry varies from page to page.
BuildDocs ==
    UNION { { [i \in 1..n |-> [w |-> g[i].w, h |-> g[i].h, annots |-> <<>>]] :
                g \in SeqsOfLen(Geoms, n) } : n \in 0..MaxPages }

CommentUniverse == { <<"a">>, <<"b", NL, "c">> }

\* comments_data arguments over the keys 0..n-1 holding at most k comments in
\* total; a key may be missing, or present with any list (the empty one too).
RECURSIVE CommentDicts(_, _)
CommentDicts(n, k) ==
    IF n = 0 THEN { EmptyDict }
    ELSE LET key == n - 1
         IN  CommentDicts(n - 1, k)
             \cup UNION { { DictSet(d, key, c) :
                              d \in CommentDicts(n - 1, k - j),
                              c \in SeqsOfLen(CommentUniverse, j) } : j \in 0..k }

\* Keys range over 0..MaxPages: one more than the largest page index.
BuildComments == CommentDicts(MaxPages + 1, MaxComments)

\* ------------------------------------------------------------------ state
VARIABLES
    doc,               \* the file at pdf_path: [exists, openable, pages]
    cpc,               \* convert: position
    epc,               \* extract: position
    e_doc,             \* extract: the fitz handle: "none" | "open" | "closed"
    e_page_num,        \* extract: page_num
    e_annot,           \* extract: annotations of the page already visited
    page_comments,     \* extract: page_comments
    comments_by_page,  \* extract: comments_by_page
    bpc,               \* build: position
    b_doc,             \* build: the fitz handle
    comments_data,     \* build: the comments_data argument
    prs,               \* build: the Presentation: [slide_width, slide_height, slides]
    geom_sets,         \* build: assignments made to prs.slide_width/height
    b_page_num,        \* build: page_num of the running loop
    temp_dir,          \* temp_pdf_images: [exists, files], files: name -> content
    created,           \* build: scratch file names written by this call
    out_file,          \* ppt_path: "absent" | "stale" (there before the call) | "partial" | "complete"
    warned,            \* build: the residue warning (line 159) was printed
    b_msg              \* build: its closing message: "none" | "open_error" | "saved" | "save_error"

vars == << doc, cpc, epc, e_doc, e_page_num, e_annot, page_comments,
           comments_by_page, bpc, b_doc, comments_data, prs, geom_sets,
           b_page_num, temp_dir, created, out_file, warned, b_msg >>

extractVars == << epc, e_doc, e_page_num, e_annot, page_comments, comments_by_page >>

buildVars == << bpc, b_doc, comments_data, prs, geom_sets, b_page_num,
                temp_dir, created, out_file, warned, b_msg >>

PageCount == Len(doc.pages)

\* Python's range(len(doc)) is 0-based; doc.pages is 1-based.
LoadPage(n) == doc.pages[n + 1]

\* ================================================================ extract
\* annot.type[1] == "Text" or annot.type[0] == 0 or annot.type[0] == 8
IsTextCommentNameOnly(annot) == annot.name = "Text"

IsTextComment(annot) ==
    \/ annot.name = "Text"
    \/ annot.code = 0
    \/ annot.code = 8

\* annot.info.get("content", "")
InfoContent(annot) == IF annot.hasContent THEN annot.content ELSE <<>>

\* if content: (a non-empty string is truthy)
TruthyAlways(content) == TRUE

Truthy(content) == Len(content) > 0

\* fitz.open(pdf_path) returns a handle; otherwise it raises
ExtractCanOpen(d) == d.exists /\ d.openable

\* for page_num in range(len(doc))
ExtractHasPage(page_num) == page_num < PageCount

\* comments_by_page = {}; doc = fitz.open(pdf_path), or return {} when it raises
ExtractOpen ==
    /\ epc = "start"
    /\ comments_by_page' = EmptyDict
    /\ IF ExtractCanOpen(doc)
       THEN /\ e_doc' = "open"
            /\ e_page_num' = 0
            /\ epc' = "page"
       ELSE /\ e_doc' = "none"
            /\ e_page_num' = e_page_num
            /\ epc' = "returned"
    /\ UNCHANGED << doc, cpc, e_annot, page_comments >>
    /\ UNCHANGED buildVars

\* for page_num in range(len(doc)): page = doc.load_page(page_num); page_comments = []
ExtractLoadPage ==
    /\ epc = "page"
    /\ ExtractHasPage(e_page_num)
    /\ page_comments' = <<>>
    /\ e_annot' = 0
    /\ epc' = "annots"
    /\ UNCHANGED << doc, cpc, e_doc, e_page_num, comments_by_page >>
    /\ UNCHANGED buildVars

\* doc.load_page / page.annots() raise on a damaged page: nothing catches it
ExtractReadError ==
    /\ epc = "page"
    /\ ExtractHasPage(e_page_num)
    /\ epc' = "raised"
    /\ UNCHANGED << doc, cpc, e_doc, e_page_num, e_annot, page_comments, comments_by_page >>
    /\ UNCHANGED buildVars

\* One turn of "for annot in page.annots()".
ExtractAnnot ==
    /\ epc = "annots"
    /\ e_annot < Len(LoadPage(e_page_num).annots)
    /\ LET annot == LoadPage(e_page_num).annots[e_annot + 1]
           content == InfoContent(annot)
       IN  page_comments' =
               IF IsTextComment(annot) /\ Truthy(content)
               THEN Append(page_comments, content)
               ELSE page_comments
    /\ e_annot' = e_annot + 1
    /\ UNCHANGED << doc, cpc, epc, e_doc, e_page_num, comments_by_page >>
    /\ UNCHANGED buildVars

\* if page_comments: comments_by_page[page_num] = page_comments
RecordAlways(d, k, v) == DictSet(d, k, v)

RecordPage(d, k, v) == IF Len(v) > 0 THEN DictSet(d, k, v) ELSE d

ExtractPageEnd ==
    /\ epc = "annots"
    /\ e_annot = Len(LoadPage(e_page_num).annots)
    /\ comments_by_page' = RecordPage(comments_by_page, e_page_num, page_comments)
    /\ e_page_num' = e_page_num + 1
    /\ epc' = "page"
    /\ UNCHANGED << doc, cpc, e_doc, e_annot, page_comments >>
    /\ UNCHANGED buildVars

\* doc.close(); return comments_by_page
ExtractClose ==
    /\ epc = "page"
    /\ ~ExtractHasPage(e_page_num)
    /\ e_doc' = "closed"
    /\ epc' = "returned"
    /\ UNCHANGED << doc, cpc, e_page_num, e_annot, page_comments, comments_by_page >>
    /\ UNCHANGED buildVars


\* ================================================================== build
\* Inches(points / 72.0): python-pptx keeps lengths as whole EMU.
InchesOfPointsRaw(pt) == pt

InchesOfPoints(pt) == (pt * EmuPerInch) \div PointsPerInch

\* Inches(0)
Origin == 0

\* os.path.join(temp_image_dir, f"page_{page_num + 1}.png"): the file is named
\* by its number; 0 names an entry that is no page file. A file's content is
\* the index of the page rendered into it, or -1 when this call did not write it.
ScratchNameShared(page_num) == 1

ScratchName(page_num) == page_num + 1

ForeignName == 0

ForeignContent == -1

\* "\n".join(comments)
RECURSIVE JoinNoSeparator(_)
JoinNoSeparator(comments) ==
    IF Len(comments) = 0 THEN <<>>
    ELSE Head(comments) \o JoinNoSeparator(Tail(comments))

RECURSIVE JoinLines(_)
JoinLines(comments) ==
    IF Len(comments) = 0 THEN <<>>
    ELSE IF Len(comments) = 1 THEN Head(comments)
    ELSE Head(comments) \o <<NL>> \o JoinLines(Tail(comments))

\* A dict without key k (os.remove on a directory's entries).
DictDel(d, k) == [x \in (DOMAIN d) \ {k} |-> d[x]]

NewPresentation ==
    [slide_width |-> DefaultSlideWidth, slide_height |-> DefaultSlideHeight,
     slides |-> <<>>]

NoNotes == [set |-> FALSE, text |-> <<>>]

\* fitz.open(pdf_path) returns a handle; otherwise it raises
BuildCanOpenAlways(d) == TRUE

BuildCanOpen(d) == d.exists /\ d.openable

\* for page_num in range(len(doc)): the page loop
BuildHasPageSkipLast(page_num) == page_num + 1 < PageCount

BuildHasPage(page_num) == page_num < PageCount

\* for page_num in range(len(doc)): the cleanup loop
CleanupHasPage(page_num) == page_num < PageCount

\* doc = fitz.open(pdf_path), or print and return when it raises; prs = Presentation()
BuildOpen ==
    /\ bpc = "start"
    /\ IF BuildCanOpen(doc)
       THEN /\ b_doc' = "open"
            /\ prs' = NewPresentation
            /\ bpc' = "geometry"
            /\ b_msg' = b_msg
       ELSE /\ b_doc' = "none"
            /\ prs' = prs
            /\ bpc' = "returned"
            /\ b_msg' = "open_error"
    /\ UNCHANGED << doc, cpc, comments_data, geom_sets, b_page_num, temp_dir,
                    created, out_file, warned >>
    /\ UNCHANGED extractVars

\* if len(doc) > 0: prs.slide_width/height = Inches(first_page.rect.width/height / 72.0)
BuildGeometry ==
    /\ bpc = "geometry"
    /\ IF PageCount > 0
       THEN /\ prs' = [prs EXCEPT !.slide_width = InchesOfPoints(LoadPage(0).w),
                                  !.slide_height = InchesOfPoints(LoadPage(0).h)]
            /\ geom_sets' = geom_sets + 1
       ELSE /\ prs' = prs
            /\ geom_sets' = geom_sets
    /\ bpc' = "mkdir"
    /\ UNCHANGED << doc, cpc, b_doc, comments_data, b_page_num, temp_dir,
                    created, out_file, warned, b_msg >>
    /\ UNCHANGED extractVars

\* if not os.path.exists(temp_image_dir): os.makedirs(temp_image_dir)
BuildMakeDir ==
    /\ bpc = "mkdir"
    /\ temp_dir' = IF temp_dir.exists THEN temp_dir
                   ELSE [exists |-> TRUE, files |-> EmptyDict]
    /\ b_page_num' = 0
    /\ bpc' = "loop"
    /\ UNCHANGED << doc, cpc, b_doc, comments_data, prs, geom_sets,
                    created, out_file, warned, b_msg >>
    /\ UNCHANGED extractVars

\* pix = page.get_pixmap(dpi=output_dpi, annots=False); pix.save(image_filename)
BuildRasterize ==
    /\ bpc = "loop"
    /\ BuildHasPage(b_page_num)
    /\ temp_dir' = [temp_dir EXCEPT
                      !.files = DictSet(@, ScratchName(b_page_num), b_page_num)]
    /\ created' = created \cup {ScratchName(b_page_num)}
    /\ bpc' = "slide"
    /\ UNCHANGED << doc, cpc, b_doc, comments_data, prs, geom_sets, b_page_num,
                    out_file, warned, b_msg >>
    /\ UNCHANGED extractVars

\* load_page / get_pixmap raise: nothing is written and nothing catches it
BuildRasterError ==
    /\ bpc = "loop"
    /\ BuildHasPage(b_page_num)
    /\ bpc' = "raised"
    /\ UNCHANGED << doc, cpc, b_doc, comments_data, prs, geom_sets, b_page_num,
                    temp_dir, created, out_file, warned, b_msg >>
    /\ UNCHANGED extractVars

\* pix.save raises after the file was opened for writing: the file stays behind
BuildScratchWriteError ==
    /\ bpc = "loop"
    /\ BuildHasPage(b_page_num)
    /\ temp_dir' = [temp_dir EXCEPT
                      !.files = DictSet(@, ScratchName(b_page_num), b_page_num)]
    /\ created' = created \cup {ScratchName(b_page_num)}
    /\ bpc' = "raised"
    /\ UNCHANGED << doc, cpc, b_doc, comments_data, prs, geom_sets, b_page_num,
                    out_file, warned, b_msg >>
    /\ UNCHANGED extractVars

\* slide = prs.slides.add_slide(blank_slide_layout)
BuildAddSlide ==
    /\ bpc = "slide"
    /\ prs' = [prs EXCEPT !.slides = Append(@, [pictures |-> <<>>, notes |-> NoNotes])]
    /\ bpc' = "picture"
    /\ UNCHANGED << doc, cpc, b_doc, comments_data, geom_sets, b_page_num,
                    temp_dir, created, out_file, warned, b_msg >>
    /\ UNCHANGED extractVars

\* slide.shapes.add_picture(image_filename, Inches(0), Inches(0),
\*                          width=prs.slide_width, height=prs.slide_height)
PictureDefaultSize(p, image) ==
    [image |-> image, left |-> Origin, top |-> Origin,
     width |-> DefaultSlideWidth, height |-> DefaultSlideHeight]

Picture(p, image) ==
    [image |-> image, left |-> Origin, top |-> Origin,
     width |-> p.slide_width, height |-> p.slide_height]

BuildAddPicture ==
    /\ bpc = "picture"
    /\ LET n == Len(prs.slides)
           image == temp_dir.files[ScratchName(b_page_num)]
       IN  prs' = [prs EXCEPT !.slides[n].pictures = Append(@, Picture(prs, image))]
    /\ bpc' = "notes"
    /\ UNCHANGED << doc, cpc, b_doc, comments_data, geom_sets, b_page_num,
                    temp_dir, created, out_file, warned, b_msg >>
    /\ UNCHANGED extractVars

\* add_picture raises (the image cannot be read back): nothing catches it
BuildPictureError ==
    /\ bpc = "picture"
    /\ bpc' = "raised"
    /\ UNCHANGED << doc, cpc, b_doc, comments_data, prs, geom_sets, b_page_num,
                    temp_dir, created, out_file, warned, b_msg >>
    /\ UNCHANGED extractVars

\* if page_num in comments_data: text_frame.clear(); p.text = "\n".join(...)
NotesKeyShifted(data, page_num) ==
    IF (page_num + 1) \in DOMAIN data
    THEN [set |-> TRUE, text |-> JoinLines(data[page_num + 1])]
    ELSE NoNotes

NotesFor(data, page_num) ==
    IF page_num \in DOMAIN data
    THEN [set |-> TRUE, text |-> JoinLines(data[page_num])]
    ELSE NoNotes

BuildNotes ==
    /\ bpc = "notes"
    /\ LET n == Len(prs.slides)
       IN  prs' = [prs EXCEPT !.slides[n].notes = NotesFor(comments_data, b_page_num)]
    /\ b_page_num' = b_page_num + 1
    /\ bpc' = "loop"
    /\ UNCHANGED << doc, cpc, b_doc, comments_data, geom_sets,
                    temp_dir, created, out_file, warned, b_msg >>
    /\ UNCHANGED extractVars

\* The page loop is over; the cleanup loop starts again at page 0.
BuildLoopDone ==
    /\ bpc = "loop"
    /\ ~BuildHasPage(b_page_num)
    /\ b_page_num' = 0
    /\ bpc' = "cleanup"
    /\ UNCHANGED << doc, cpc, b_doc, comments_data, prs, geom_sets,
                    temp_dir, created, out_file, warned, b_msg >>
    /\ UNCHANGED extractVars

\* if os.path.exists(image_filename): os.remove(image_filename)
RemoveNothing(files, name) == files

RemoveIfExists(files, name) ==
    IF name \in DOMAIN files THEN DictDel(files, name) ELSE files

BuildCleanupFile ==
    /\ bpc = "cleanup"
    /\ CleanupHasPage(b_page_num)
    /\ temp_dir' = [temp_dir EXCEPT
                      !.files = RemoveIfExists(@, ScratchName(b_page_num))]
    /\ b_page_num' = b_page_num + 1
    /\ UNCHANGED << doc, cpc, bpc, b_doc, comments_data, prs, geom_sets,
                    created, out_file, warned, b_msg >>
    /\ UNCHANGED extractVars

\* os.remove raises (the file is locked or not ours to delete): nothing catches it
BuildCleanupError ==
    /\ bpc = "cleanup"
    /\ CleanupHasPage(b_page_num)
    /\ ScratchName(b_page_num) \in DOMAIN temp_dir.files
    /\ bpc' = "raised"
    /\ UNCHANGED << doc, cpc, b_doc, comments_data, prs, geom_sets, b_page_num,
                    temp_dir, created, out_file, warned, b_msg >>
    /\ UNCHANGED extractVars

\* if exists and not os.listdir(dir): os.rmdir(dir) / elif exists: print warning
BuildCleanupDir ==
    /\ bpc = "cleanup"
    /\ ~CleanupHasPage(b_page_num)
    /\ IF temp_dir.exists /\ DOMAIN temp_dir.files = {}
       THEN /\ temp_dir' = [temp_dir EXCEPT !.exists = FALSE]
            /\ warned' = warned
       ELSE /\ temp_dir' = temp_dir
            /\ warned' = (warned \/ temp_dir.exists)
    /\ bpc' = "close"
    /\ UNCHANGED << doc, cpc, b_doc, comments_data, prs, geom_sets, b_page_num,
                    created, out_file, b_msg >>
    /\ UNCHANGED extractVars

\* doc.close()
BuildClose ==
    /\ bpc = "close"
    /\ b_doc' = "closed"
    /\ bpc' = "save"
    /\ UNCHANGED << doc, cpc, comments_data, prs, geom_sets, b_page_num,
                    temp_dir, created, out_file, warned, b_msg >>
    /\ UNCHANGED extractVars

\* try: prs.save(ppt_path); print success
BuildSave ==
    /\ bpc = "save"
    /\ out_file' = "complete"
    /\ b_msg' = "saved"
    /\ bpc' = "returned"
    /\ UNCHANGED << doc, cpc, b_doc, comments_data, prs, geom_sets, b_page_num,
                    temp_dir, created, warned >>
    /\ UNCHANGED extractVars

\* except Exception: print the error. prs.save raised either before it created
\* the file or while writing it; the handler removes nothing.
BuildSaveError ==
    /\ bpc = "save"
    /\ out_file' \in {out_file, "partial"}
    /\ b_msg' = "save_error"
    /\ bpc' = "returned"
    /\ UNCHANGED << doc, cpc, b_doc, comments_data, prs, geom_sets, b_page_num,
                    temp_dir, created, warned >>
    /\ UNCHANGED extractVars

\* ================================================================ convert
\* not pdf_input_path.exists()
InputMissingNever(d) == FALSE

InputMissing(d) == ~d.exists

\* if not pdf_input_path.exists(): print; return
ConvertCheckInput ==
    /\ cpc = "start"
    /\ IF InputMissing(doc)
       THEN /\ cpc' = "aborted"
            /\ epc' = epc
       ELSE /\ cpc' = "extract"
            /\ epc' = "start"
    /\ UNCHANGED << doc, e_doc, e_page_num, e_annot, page_comments, comments_by_page >>
    /\ UNCHANGED buildVars

\* extracted_comments = extract_pdf_comments_with_pages(pdf_input_path);
\* convert_pdf_to_ppt_with_comments(pdf_input_path, ppt_output_path, extracted_comments, dpi)
ConvertCallBuild ==
    /\ cpc = "extract"
    /\ epc = "returned"
    /\ comments_data' = comments_by_page
    /\ bpc' = "start"
    /\ cpc' = "build"
    /\ UNCHANGED << doc, b_doc, prs, geom_sets, b_page_num, temp_dir, created,
                    out_file, warned, b_msg >>
    /\ UNCHANGED extractVars

\* An exception out of extract or build leaves convert as well.
ConvertPropagate ==
    /\ \/ cpc = "extract" /\ epc = "raised"
       \/ cpc = "build" /\ bpc = "raised"
    /\ cpc' = "raised"
    /\ UNCHANGED doc
    /\ UNCHANGED extractVars
    /\ UNCHANGED buildVars

ConvertReturn ==
    /\ cpc = "build"
    /\ bpc = "returned"
    /\ cpc' = "done"
    /\ UNCHANGED doc
    /\ UNCHANGED extractVars
    /\ UNCHANGED buildVars

\* ========================================================= specifications
ExtractIdle ==
    /\ e_doc = "none"
    /\ e_page_num = 0
    /\ e_annot = 0
    /\ page_comments = <<>>
    /\ comments_by_page = EmptyDict

BuildIdle ==
    /\ b_doc = "none"
    /\ prs = NewPresentation
    /\ geom_sets = 0
    /\ b_page_num = 0
    /\ created = {}
    /\ out_file \in {"absent", "stale"}
    /\ warned = FALSE
    /\ b_msg = "none"

\* The scratch directory before a build: missing, empty, holding an entry
\* that is no page file, or holding a page_1.png an earlier run left.
TempDirs ==
    { [exists |-> FALSE, files |-> EmptyDict],
      [exists |-> TRUE, files |-> EmptyDict],
      [exists |-> TRUE, files |-> DictSet(EmptyDict, ForeignName, ForeignContent)],
      [exists |-> TRUE, files |-> DictSet(EmptyDict, ScratchName(0), ForeignContent)] }

Files(pageSets) ==
    { [exists |-> TRUE, openable |-> o, pages |-> p] : o \in BOOLEAN, p \in pageSets }

MissingFile == [exists |-> FALSE, openable |-> FALSE, pages |-> <<>>]

\* The convert command, run on a path that may not exist.
Init ==
    /\ doc \in Files(ExtractDocs) \cup {MissingFile}
    /\ cpc = "start"
    /\ epc = "idle"
    /\ ExtractIdle
    /\ bpc = "idle"
    /\ comments_data = EmptyDict
    /\ temp_dir \in TempDirs
    /\ BuildIdle

ExtractNext ==
    \/ ExtractOpen
    \/ ExtractLoadPage
    \/ ExtractReadError
    \/ ExtractAnnot
    \/ ExtractPageEnd
    \/ ExtractClose

BuildNext ==
    \/ BuildOpen
    \/ BuildGeometry
    \/ BuildMakeDir
    \/ BuildRasterize
    \/ BuildRasterError
    \/ BuildScratchWriteError
    \/ BuildAddSlide
    \/ BuildAddPicture
    \/ BuildPictureError
    \/ BuildNotes
    \/ BuildLoopDone
    \/ BuildCleanupFile
    \/ BuildCleanupError
    \/ BuildCleanupDir
    \/ BuildClose
    \/ BuildSave
    \/ BuildSaveError

Next ==
    \/ ConvertCheckInput
    \/ ConvertCallBuild
    \/ ConvertPropagate
    \/ ConvertReturn
    \/ ExtractNext
    \/ BuildNext

Spec == Init /\ [][Next]_vars

\* A direct call of extract_pdf_comments_with_pages(pdf_path).
InitExtract ==
    /\ doc \in Files(ExtractDocs) \cup {MissingFile}
    /\ cpc = "none"
    /\ epc = "start"
    /\ ExtractIdle
    /\ bpc = "idle"
    /\ comments_data = EmptyDict
    /\ temp_dir = [exists |-> FALSE, files |-> EmptyDict]
    /\ BuildIdle

SpecExtract == InitExtract /\ [][ExtractNext]_vars

\* A direct call of convert_pdf_to_ppt_with_comments(pdf_path, ppt_path, comments_data).
InitBuild ==
    /\ doc \in Files(BuildDocs) \cup {MissingFile}
    /\ cpc = "none"
    /\ epc = "idle"
    /\ ExtractIdle
    /\ bpc = "start"
    /\ comments_data \in BuildComments
    /\ temp_dir \in TempDirs
    /\ BuildIdle

SpecBuild == InitBuild /\ [][BuildNext]_vars

\* ================================================================= claims
\* The build opened the document and came back to its caller.
BuildCompleted == bpc = "returned" /\ b_doc # "none"

Slides == prs.slides

\* Scratch files this call wrote that are still in the scratch directory.
ScratchLeft == created \cap DOMAIN temp_dir.files

\* C1: a build of an openable document that runs to completion leaves exactly
\* PageCount slides, the i-th made from page index i and holding exactly one
\* picture; while it runs, slides are appended in increasing page order, so a
\* slide's picture is always the raster of the page with the slide's index.
C1_OneSlidePerPage ==
    /\ Len(Slides) <= PageCount
    /\ \A i \in 1..Len(Slides) :
          /\ Len(Slides[i].pictures) <= 1
          /\ \A j \in 1..Len(Slides[i].pictures) : Slides[i].pictures[j].image = i - 1
    /\ BuildCompleted =>
          /\ Len(Slides) = PageCount
          /\ \A i \in 1..Len(Slides) : Len(Slides[i].pictures) = 1

\* A completed build of a document of two or more pages whose comments_data
\* has a key that is no page index.
C1_Witness ==
    /\ BuildCompleted
    /\ PageCount >= 2
    /\ Len(Slides) >= 2
    /\ \E k \in DOMAIN comments_data : k >= PageCount

\* Characters in front of the k-th comment in a newline join.
RECURSIVE C2_Offset(_, _)
C2_Offset(cs, k) ==
    IF k = 1 THEN 0 ELSE C2_Offset(cs, k - 1) + Len(cs[k - 1]) + 1

\* text is cs[1], newline, cs[2], newline, ..., cs[N]: each comment whole, in
\* order, with exactly one newline between neighbours and nothing else.
C2_IsNewlineJoin(text, cs) ==
    LET N == Len(cs)
    IN  /\ Len(text) = IF N = 0 THEN 0 ELSE C2_Offset(cs, N) + Len(cs[N])
        /\ \A k \in 1..N :
              SubSeq(text, C2_Offset(cs, k) + 1, C2_Offset(cs, k) + Len(cs[k])) = cs[k]
        /\ \A k \in 1..(N - 1) : text[C2_Offset(cs, k) + Len(cs[k]) + 1] = NL

\* C2: a slide's notes are set only from the comments_data entry of its own
\* page index, to that entry's comments joined by single newlines in order; a
\* slide whose page has no entry has no notes text; and after a completed
\* build every page with an entry has its notes set.
C2_NotesAreOwnComments ==
    /\ \A i \in 1..Len(Slides) :
          IF Slides[i].notes.set
          THEN /\ (i - 1) \in DOMAIN comments_data
               /\ C2_IsNewlineJoin(Slides[i].notes.text, comments_data[i - 1])
          ELSE Slides[i].notes.text = <<>>
    /\ BuildCompleted =>
          \A i \in 1..Len(Slides) :
             Slides[i].notes.set <=> ((i - 1) \in DOMAIN comments_data)

\* A completed build where one page has two comments and another has no entry.
C2_Witness ==
    /\ BuildCompleted
    /\ \E i \in 1..Len(Slides) :
          /\ Slides[i].notes.set
          /\ Len(comments_data[i - 1]) >= 2
    /\ \E i \in 1..Len(Slides) : (i - 1) \notin DOMAIN comments_data

\* An annotation extract is to keep.
C3_Keeps(a) ==
    /\ a.name = "Text" \/ a.code = 0 \/ a.code = 8
    /\ a.hasContent
    /\ a.content # <<>>

C3_Expected(p) ==
    LET kept == SelectSeq(doc.pages[p + 1].annots, C3_Keeps)
    IN  [i \in 1..Len(kept) |-> kept[i].content]

C3_Returned(p) ==
    IF p \in DOMAIN comments_by_page THEN comments_by_page[p] ELSE <<>>

\* C3: what extract returns for page p of an openable document is the
\* content strings, whole and in encounter order, of exactly those annotations
\* of page p that are named "Text" or have code 0 or 8 and carry non-empty
\* content.
C3_ExtractIsFilteredSubsequence ==
    (epc = "returned" /\ e_doc = "closed") =>
        \A p \in 0..(PageCount - 1) : C3_Returned(p) = C3_Expected(p)

\* extract returned for a page with one annotation kept and one dropped.
C3_Witness ==
    /\ epc = "returned"
    /\ e_doc = "closed"
    /\ \E p \in 0..(PageCount - 1) :
          /\ Len(doc.pages[p + 1].annots) >= 2
          /\ Len(C3_Returned(p)) = 1

C4_NoComment(a) ==
    \/ ~(a.name = "Text" \/ a.code = 0 \/ a.code = 8)
    \/ ~a.hasContent
    \/ Len(a.content) = 0

\* C4: at every point of extract, every key of comments_by_page is a page
\* index of the document and maps to a non-empty list; and extract returns the
\* empty mapping for a document of no pages or of no text comment with content.
C4_EntriesNonEmptyAndInRange ==
    /\ \A k \in DOMAIN comments_by_page :
          /\ Len(comments_by_page[k]) > 0
          /\ 0 <= k
          /\ k < PageCount
    /\ ( /\ epc = "returned"
         /\ \A p \in 1..PageCount :
               \A i \in 1..Len(doc.pages[p].annots) : C4_NoComment(doc.pages[p].annots[i]) )
       => DOMAIN comments_by_page = {}

\* extract returned an entry for one page and none for another page that has
\* annotations.
C4_Witness ==
    /\ epc = "returned"
    /\ DOMAIN comments_by_page # {}
    /\ \E p \in 0..(PageCount - 1) :
          /\ p \notin DOMAIN comments_by_page
          /\ Len(doc.pages[p + 1].annots) > 0

SourceOpens == doc.exists /\ doc.openable

\* C5 as stated: when the source cannot be opened, build leaves by raising,
\* with no slide, no scratch file and no output file.
C5_OpenFailureRaises ==
    (~SourceOpens /\ bpc # "start") =>
        /\ bpc = "raised"
        /\ Slides = <<>>
        /\ created = {}
        /\ out_file \notin {"partial", "complete"}

\* C5 amended: when the source cannot be opened, build prints the failure and
\* returns normally; it holds no handle, made no slide, wrote no scratch file,
\* never reached the save step, and wrote nothing at the output path.
C5_OpenFailureReturns ==
    (~SourceOpens /\ bpc # "start") =>
        /\ bpc = "returned"
        /\ b_msg = "open_error"
        /\ b_doc = "none"
        /\ Slides = <<>>
        /\ created = {}
        /\ \A name \in DOMAIN temp_dir.files : temp_dir.files[name] = ForeignContent
        /\ out_file \notin {"partial", "complete"}

\* build came back from a file that exists and cannot be opened.
C5_Witness ==
    /\ doc.exists
    /\ ~doc.openable
    /\ bpc = "returned"
    /\ b_msg = "open_error"

\* C6: on a file that exists and cannot be opened extract returns the empty
\* mapping without raising; whenever extract has returned, convert's next step
\* is the call of build with exactly what extract returned (the empty mapping
\* included); on a missing path convert aborts with neither extract nor build
\* ever started.
C6_ConvertPipeline ==
    /\ (doc.exists /\ ~doc.openable /\ epc \notin {"idle", "start"}) =>
          /\ epc = "returned"
          /\ e_doc = "none"
          /\ DOMAIN comments_by_page = {}
    /\ (cpc = "extract" /\ epc = "returned") => ENABLED ConvertCallBuild
    /\ cpc \in {"build", "done"} =>
          /\ bpc # "idle"
          /\ comments_data = comments_by_page
    /\ ~doc.exists =>
          /\ cpc \in {"start", "aborted"}
          /\ epc = "idle"
          /\ bpc = "idle"

\* convert finished on a file that exists and cannot be opened: extract gave
\* the empty mapping and build was called with it.
C6_Witness ==
    /\ doc.exists
    /\ ~doc.openable
    /\ cpc = "done"
    /\ DOMAIN comments_data = {}
    /\ b_msg = "open_error"

\* C7 as stated: when the save fails, build leaves by raising, no partial file
\* is at the output path, and no scratch file of the call is left.
C7_SaveFailureRaises ==
    b_msg = "save_error" =>
        /\ bpc = "raised"
        /\ out_file # "partial"
        /\ ScratchLeft = {}

\* C7 amended: the save is attempted only after every scratch file of the call
\* is removed and the document closed; when it fails, build prints the failure
\* and returns normally, with no complete output written. (Whether a partial
\* file stays at the output path is not decided by build, which removes none.)
C7_SaveFailureReturns ==
    /\ bpc = "save" =>
          /\ ScratchLeft = {}
          /\ b_doc = "closed"
    /\ b_msg = "save_error" =>
          /\ bpc = "returned"
          /\ ScratchLeft = {}
          /\ b_doc = "closed"
          /\ out_file # "complete"

\* A failed save after scratch files were written, leaving a partial file.
C7_Witness ==
    /\ b_msg = "save_error"
    /\ created # {}
    /\ out_file = "partial"

\* C8: the deck geometry is assigned at most once; for a document with pages
\* it is assigned before any slide exists and is page 0's size at 72 points
\* to the inch, at every later point; every picture sits at the origin with
\* the deck's width and height whatever its own page's size; for a document
\* without pages it stays the default.
C8_GeometryFromFirstPage ==
    /\ geom_sets <= 1
    /\ (b_doc # "none" /\ PageCount > 0 /\ bpc \notin {"start", "geometry"}) =>
          /\ geom_sets = 1
          /\ prs.slide_width * PointsPerInch = doc.pages[1].w * EmuPerInch
          /\ prs.slide_height * PointsPerInch = doc.pages[1].h * EmuPerInch
    /\ Slides # <<>> => geom_sets = 1
    /\ \A i \in 1..Len(Slides) :
          \A j \in 1..Len(Slides[i].pictures) :
             LET pic == Slides[i].pictures[j]
             IN  /\ pic.left = 0
                 /\ pic.top = 0
                 /\ pic.width = prs.slide_width
                 /\ pic.height = prs.slide_height
    /\ PageCount = 0 =>
          /\ geom_sets = 0
          /\ prs.slide_width = DefaultSlideWidth
          /\ prs.slide_height = DefaultSlideHeight

\* A completed build of a document whose second page differs in size from its
\* first.
C8_Witness ==
    /\ BuildCompleted
    /\ Len(Slides) >= 2
    /\ doc.pages[2].w # doc.pages[1].w

\* C9: when extract or build has ended, by return or by exception, the handle
\* it opened is no longer open.
C9_HandleClosedOnEveryExit ==
    /\ epc \in {"returned", "raised"} => e_doc # "open"
    /\ bpc \in {"returned", "raised"} => b_doc # "open"

\* C10: when a build that opened the document has ended, by return or by
\* exception, no scratch file it wrote is left, and the scratch directory
\* exists exactly if it still holds entries.
C10_ScratchGoneOnEveryExit ==
    (bpc \in {"returned", "raised"} /\ b_doc # "none") =>
        /\ ScratchLeft = {}
        /\ temp_dir.exists <=> (DOMAIN temp_dir.files # {})

====
